---------------------------- MODULE Spec2Model ----------------------------
(***************************************************************************)
(* CRM data pipeline (Updated.pipeline.py; the earlier pipeline script     *)
(* has the same helpers and the same front half of main).                  *)
(*                                                                         *)
(* One run of the script is a state machine over the file system, the      *)
(* command line and the position in main().  The helper functions are      *)
(* operators, computed the way the Python computes them; each also has a   *)
(* specification of its own that draws its inputs from bounded sets.       *)
(***************************************************************************)
EXTENDS Integers, Sequences, FiniteSets, TLC

VARIABLES
    pc,           \* position of the run in the script
    argv,         \* the parsed command line (args)
    fs,           \* workbook files: path -> workbook id, 0 when absent
    dirs,         \* directories that exist
    out,          \* output files: name -> "absent" | "stale" | "written"
    xls,          \* the opened workbook: sequence of [name, df]
    deals_sheet,  \* main's local deals_sheet (None or a name)
    teams_sheet,  \* main's local teams_sheet (None or a name)
    deals_df,     \* the loaded deals table
    teams_df,     \* the loaded teams table
    merged,       \* the merged table
    summary,      \* the summary dict, in insertion order
    report,       \* the lines of reports/summary_report.txt
    exitCode,     \* the process exit code, -1 while running
    stderr,       \* lines printed on standard error
    exc,          \* the exception in flight ("" when none)
    trace,        \* the stages executed so far, in order
    lastCall      \* what the last ensure_excel_available call did

vars == <<pc, argv, fs, dirs, out, xls, deals_sheet, teams_sheet, deals_df,
          teams_df, merged, summary, report, exitCode, stderr, exc, trace,
          lastCall>>

(***************************************************************************)
(* Bounds of the model.                                                    *)
(***************************************************************************)
MaxSheets == 3
MaxDealRows == 2
MaxTeamRows == 2
MaxSummaryRows == 2
MaxTrainRows == 10

(***************************************************************************)
(* Strings.  A sheet name is a sequence of characters, so that lower() and *)
(* the substring test `k in lname` are computed, not assumed.              *)
(***************************************************************************)
UpperChars == <<"A","B","C","D","E","F","G","H","I","J","K","L","M",
                "N","O","P","Q","R","S","T","U","V","W","X","Y","Z">>
LowerChars == <<"a","b","c","d","e","f","g","h","i","j","k","l","m",
                "n","o","p","q","r","s","t","u","v","w","x","y","z">>

LowerChar(c) ==
    IF \E i \in DOMAIN UpperChars : UpperChars[i] = c
    THEN LowerChars[CHOOSE i \in DOMAIN UpperChars : UpperChars[i] = c]
    ELSE c

\* str.lower()
lower(s) == [i \in DOMAIN s |-> LowerChar(s[i])]

\* Python's `k in s` on strings: k is a contiguous substring of s.
StrIn(k, s) ==
    \E i \in 1..(Len(s) - Len(k) + 1) : SubSeq(s, i, i + Len(k) - 1) = k

\* Python's None / Some(v) for an optional string.
None == [given |-> FALSE, val |-> <<>>]
Some(v) == [given |-> TRUE, val |-> v]

\* Truthiness of an optional string: None and "" are both falsy.
Truthy(o) == o.given /\ o.val # <<>>

\* `a or b` where b is a plain string.
Or(a, b) == IF Truthy(a) THEN a.val ELSE b

\* detect_sheet_names: the keyword lists of lines 40 and 41.
DealsKeywords == << <<"d","e","a","l">>,
                    <<"p","i","p","e","l","i","n","e">>,
                    <<"o","p","p","o","r","t","u","n","i","t">> >>
TeamsKeywords == << <<"t","e","a","m">>, <<"s","a","l","e","s">> >>

\* any(k in lname for k in keywords)
AnyKeywordIn(keywords, lname) ==
    \E j \in DOMAIN keywords : StrIn(keywords[j], lname)

\* find_sheet: the loop over sheet_names from position i on; None at the end.
RECURSIVE FindSheetFrom(_, _, _)
FindSheetFrom(sheet_names, keywords, i) ==
    IF i > Len(sheet_names) THEN None
    ELSE IF AnyKeywordIn(keywords, lower(sheet_names[i]))
         THEN Some(sheet_names[i])
         ELSE FindSheetFrom(sheet_names, keywords, i + 1)

\* Mutant of find_sheet: the name is not lower-cased before the test.
find_sheet_CaseSensitive(sheet_names, keywords) ==
    LET hits == {i \in DOMAIN sheet_names :
                    AnyKeywordIn(keywords, sheet_names[i])}
    IN  IF hits = {} THEN None
        ELSE Some(sheet_names[CHOOSE i \in hits : \A j \in hits : i <= j])

find_sheet(sheet_names, keywords) == FindSheetFrom(sheet_names, keywords, 1)

\* detect_sheet_names(xls) on xls.sheet_names (at least one sheet).
detect_sheet_names(sheet_names) ==
    [deals |-> Or(find_sheet(sheet_names, DealsKeywords), sheet_names[1]),
     teams |-> Or(find_sheet(sheet_names, TeamsKeywords),
                  sheet_names[Len(sheet_names)])]

(***************************************************************************)
(* Sheet names the model draws workbooks from.                             *)
(***************************************************************************)
NPipeline == <<"P","i","p","e","l","i","n","e">>
NSalesTeam == <<"S","a","l","e","s"," ","T","e","a","m">>
NDEALS == <<"D","E","A","L","S">>
NOpportunities == <<"O","p","p","o","r","t","u","n","i","t","i","e","s">>
NSheet1 == <<"S","h","e","e","t","1">>
NTeamPipeline == <<"T","e","a","m"," ","P","i","p","e","l","i","n","e">>
NIdeal == <<"I","d","e","a","l">>
NData == <<"D","a","t","a">>
NMissing == <<"N","o","n","e","x","i","s","t","e","n","t">>

SheetNamePool == {NPipeline, NSalesTeam, NDEALS, NOpportunities, NSheet1,
                  NTeamPipeline, NIdeal, NData}

\* Ordered lists of distinct sheet names (a workbook's names are distinct).
SheetNameLists ==
    UNION {{s \in [1..n -> SheetNamePool] :
               \A i, j \in 1..n : i # j => s[i] # s[j]} : n \in 1..MaxSheets}

(***************************************************************************)
(* Tables.  A cell is a number, a text or NaN; a table is its ordered      *)
(* columns and its rows (functions from column name to cell).              *)
(***************************************************************************)
NaN == [kind |-> "nan", v |-> 0]
Num(n) == [kind |-> "num", v |-> n]
Txt(n) == [kind |-> "str", v |-> n]

EmptyDF == [columns |-> <<>>, rows |-> <<>>]

Range(s) == {s[i] : i \in DOMAIN s}
HasColumn(df, c) == c \in Range(df.columns)

\* A table from its columns and its rows given as tuples in column order.
Table(cols, tuples) ==
    [columns |-> cols,
     rows |-> [i \in DOMAIN tuples |->
                 [c \in Range(cols) |->
                    tuples[i][CHOOSE k \in DOMAIN cols : cols[k] = c]]]]

(***************************************************************************)
(* Workbook acquisition.                                                   *)
(***************************************************************************)
RawDir == "data/raw"
ProcessedDir == "data/processed"
ReportsDir == "reports"
CanonicalName == "CRM_Sales_Dashboard_25.xlsx"

\* Path / name
Join(dir, name) == dir \o "/" \o name

Dest == Join(RawDir, CanonicalName)
SrcA == "input/a.xlsx"
SrcB == "input/b.xlsx"
WorkbookPaths == {Dest, SrcA, SrcB}

\* mkdir(parents=True, exist_ok=True): the directory and its ancestors.
Mkdir(dirset, d) ==
    dirset \cup {d} \cup (IF d \in {RawDir, ProcessedDir} THEN {"data"} ELSE {})

\* Mutant of ensure_excel_available: copies whenever the source exists,
\* also over an existing destination.
ensure_excel_available_AlwaysCopy(files, dirset, src_excel, raw_dir, canonical_name) ==
    LET dest == Join(raw_dir, canonical_name)
    IN  IF files[src_excel] # 0
        THEN [fs |-> [files EXCEPT ![dest] = files[src_excel]],
              dirs |-> Mkdir(dirset, raw_dir), raised |-> "",
              result |-> dest, copied |-> TRUE, srcRead |-> TRUE]
        ELSE IF files[dest] # 0
        THEN [fs |-> files, dirs |-> Mkdir(dirset, raw_dir), raised |-> "",
              result |-> dest, copied |-> FALSE, srcRead |-> FALSE]
        ELSE [fs |-> files, dirs |-> Mkdir(dirset, raw_dir),
              raised |-> "FileNotFoundError", result |-> "",
              copied |-> FALSE, srcRead |-> FALSE]

\* ensure_excel_available(src_excel, raw_dir, canonical_name) on the file
\* system (files, dirset): the file system after the call, the exception
\* raised ("" for none), the path returned, and whether the source was
\* copied (shutil.copy reads it).
ensure_excel_available(files, dirset, src_excel, raw_dir, canonical_name) ==
    LET dest == Join(raw_dir, canonical_name)
        made == Mkdir(dirset, raw_dir)
    IN  IF files[dest] # 0
        THEN [fs |-> files, dirs |-> made, raised |-> "",
              result |-> dest, copied |-> FALSE, srcRead |-> FALSE]
        ELSE IF files[src_excel] # 0
        THEN [fs |-> [files EXCEPT ![dest] = files[src_excel]],
              dirs |-> made, raised |-> "",
              result |-> dest, copied |-> TRUE, srcRead |-> TRUE]
        ELSE [fs |-> files, dirs |-> made,
              raised |-> "FileNotFoundError", result |-> "",
              copied |-> FALSE, srcRead |-> FALSE]

(***************************************************************************)
(* Merge.                                                                  *)
(***************************************************************************)
\* The rows of `right` whose key equals the key of `lrow`, in order.  pandas
\* matches a missing key (NaN) with a missing key.
MatchingRows(lrow, right, key) ==
    SelectSeq(right.rows, LAMBDA r : r[key] = lrow[key])

\* Mutant of LeftMerge: an inner join, which drops the unmatched deal rows.
RECURSIVE InnerRowsFrom(_, _, _, _)
InnerRowsFrom(left, right, key, i) ==
    IF i > Len(left.rows) THEN <<>>
    ELSE [j \in DOMAIN MatchingRows(left.rows[i], right, key) |->
             left.rows[i]]
         \o InnerRowsFrom(left, right, key, i + 1)

LeftMerge_Inner(left, right, key) ==
    [columns |-> left.columns, rows |-> InnerRowsFrom(left, right, key, 1)]

\* One output row: the left row's cells under the left names, the right
\* row's cells (NaN when there is no right row) under the right names.
JoinedRow(left, right, key, lrow, rrow, matched) ==
    LET overlap == (Range(left.columns) \cap Range(right.columns)) \ {key}
        lname(c) == IF c \in overlap THEN c \o "_x" ELSE c
        rname(c) == IF c \in overlap THEN c \o "_y" ELSE c
        lnames == {lname(c) : c \in Range(left.columns)}
        rnames == {rname(c) : c \in Range(right.columns) \ {key}}
    IN  [oc \in lnames \cup rnames |->
            IF oc \in lnames
            THEN lrow[CHOOSE c \in Range(left.columns) : lname(c) = oc]
            ELSE IF matched
                 THEN rrow[CHOOSE c \in Range(right.columns) : rname(c) = oc]
                 ELSE NaN]

RECURSIVE LeftRowsFrom(_, _, _, _)
LeftRowsFrom(left, right, key, i) ==
    IF i > Len(left.rows) THEN <<>>
    ELSE LET lrow == left.rows[i]
             hits == MatchingRows(lrow, right, key)
         IN  (IF hits = <<>>
              THEN <<JoinedRow(left, right, key, lrow, lrow, FALSE)>>
              ELSE [j \in DOMAIN hits |->
                      JoinedRow(left, right, key, lrow, hits[j], TRUE)])
             \o LeftRowsFrom(left, right, key, i + 1)

\* left.merge(right, on=key, how="left"): the left columns, then the right
\* columns without the key; a column name on both sides gets _x and _y.
LeftMerge(left, right, key) ==
    LET overlap == (Range(left.columns) \cap Range(right.columns)) \ {key}
        rcols == SelectSeq(right.columns, LAMBDA c : c # key)
    IN  [columns |->
            [i \in DOMAIN left.columns |->
               IF left.columns[i] \in overlap
               THEN left.columns[i] \o "_x" ELSE left.columns[i]]
            \o [i \in DOMAIN rcols |->
               IF rcols[i] \in overlap THEN rcols[i] \o "_y" ELSE rcols[i]],
         rows |-> LeftRowsFrom(left, right, key, 1)]

\* Mutant of process_and_merge: the fallback hands back the wrong table.
process_and_merge_ReturnsTeams(deals, teams) ==
    IF HasColumn(deals, "SalesRep") /\ HasColumn(teams, "SalesRep")
    THEN LeftMerge(deals, teams, "SalesRep")
    ELSE teams

process_and_merge(deals, teams) ==
    IF HasColumn(deals, "SalesRep") /\ HasColumn(teams, "SalesRep")
    THEN LeftMerge(deals, teams, "SalesRep")
    ELSE deals

(***************************************************************************)
(* Summary report.                                                         *)
(***************************************************************************)
Column(df, c) == [i \in DOMAIN df.rows |-> df.rows[i][c]]

RECURSIVE SumCells(_)
SumCells(cells) ==
    IF cells = <<>> THEN 0
    ELSE (IF Head(cells).kind = "num" THEN Head(cells).v ELSE 0)
         + SumCells(Tail(cells))

\* Cells that are not missing (sum, mean and value_counts skip NaN).
Present(cells) == SelectSeq(cells, LAMBDA x : x.kind # "nan")

HasText(cells) == \E i \in DOMAIN cells : cells[i].kind = "str"

\* a / b rounded to the nearest integer (b > 0).  No quotient the model
\* reaches lies halfway between two integers, where round() goes to even.
RoundDiv(a, b) == (2 * a + b) \div (2 * b)

\* Series.sum() and Series.mean() of the Amount column.
RevenueEntries(df) ==
    LET cells == Column(df, "Amount")
    IN  << [key |-> "Total Revenue", value |-> [total |-> SumCells(cells)]],
           [key |-> "Average Deal Size",
            value |-> [sum |-> SumCells(cells),
                       count |-> Len(Present(cells))]] >>

\* Series.value_counts().to_dict(): each stage present with its row count.
StageEntries(df) ==
    LET cells == Present(Column(df, "Stage"))
    IN  << [key |-> "Deals by Stage",
            value |-> [counts |->
               [s \in Range(cells) |->
                  Cardinality({i \in DOMAIN cells : cells[i] = s})]]] >>

\* round(mean * 100, 2), held in hundredths of a percent; nan for no rows.
WinRateEntries(df) ==
    LET cells == Present(Column(df, "Closed"))
    IN  << [key |-> "Win Rate (%)",
            value |-> IF cells = <<>>
                      THEN [nan |-> TRUE, hundredths |-> 0]
                      ELSE [nan |-> FALSE,
                            hundredths |->
                               RoundDiv(SumCells(cells) * 10000,
                                        Len(cells))]] >>

\* Mutant of generate_summary: the win rate is computed before the stage
\* breakdown, and the average only when there is a Stage column.
generate_summary_Reordered(df) ==
    [raised |-> "",
     summary |->
        (IF HasColumn(df, "Amount")
         THEN (IF HasColumn(df, "Stage") THEN RevenueEntries(df)
               ELSE <<RevenueEntries(df)[1]>>)
         ELSE <<>>)
        \o (IF HasColumn(df, "Closed") THEN WinRateEntries(df) ELSE <<>>)
        \o (IF HasColumn(df, "Stage") THEN StageEntries(df) ELSE <<>>)]

\* generate_summary(df): the dict in insertion order, or the exception the
\* arithmetic raises on a text column (sum / mean of strings: TypeError).
generate_summary(df) ==
    IF \/ HasColumn(df, "Amount") /\ HasText(Column(df, "Amount"))
       \/ HasColumn(df, "Closed") /\ HasText(Column(df, "Closed"))
    THEN [raised |-> "TypeError", summary |-> <<>>]
    ELSE [raised |-> "",
          summary |->
             (IF HasColumn(df, "Amount") THEN RevenueEntries(df) ELSE <<>>)
             \o (IF HasColumn(df, "Stage") THEN StageEntries(df) ELSE <<>>)
             \o (IF HasColumn(df, "Closed") THEN WinRateEntries(df)
                 ELSE <<>>)]

\* The body of save_summary_report's loop: f"{k}: {v}\n" per item.
SummaryLines(items) ==
    [i \in DOMAIN items |-> <<items[i].key, ": ", items[i].value, "\n">>]

(***************************************************************************)
(* Charts.                                                                 *)
(***************************************************************************)
\* generate_charts(df): the image files it saves.
generate_charts(df) ==
    (IF HasColumn(df, "Amount") /\ HasColumn(df, "Stage")
     THEN {"revenue_by_stage.png"} ELSE {})
    \cup (IF HasColumn(df, "SalesRep") /\ HasColumn(df, "Amount")
          THEN {"top_sales_reps.png"} ELSE {})

(***************************************************************************)
(* Classifier.                                                             *)
(***************************************************************************)
\* test_size=0.2, in percent.
TestSizePct == 20

\* RandomState(42).permutation(n), 1-based, for n = 1, 2, ...: the shuffle
\* train_test_split(random_state=42) draws for n rows.
Permutation42 ==
    << <<1>>,
       <<2, 1>>,
       <<1, 2, 3>>,
       <<2, 4, 1, 3>>,
       <<2, 5, 3, 1, 4>>,
       <<1, 2, 6, 3, 5, 4>>,
       <<1, 2, 6, 3, 5, 4, 7>>,
       <<2, 6, 1, 8, 3, 5, 4, 7>>,
       <<8, 2, 6, 1, 9, 3, 5, 4, 7>>,
       <<9, 2, 6, 1, 8, 3, 10, 5, 4, 7>>,
       <<6, 1, 10, 11, 3, 2, 9, 5, 8, 4, 7>>,
       <<11, 10, 1, 9, 6, 3, 2, 12, 5, 8, 4, 7>> >>

\* Mutant of train_test_split: the two sizes are swapped (test_size=0.8).
train_test_split_Swapped(n) ==
    LET n_train == (n * TestSizePct + 99) \div 100
        n_test == n - n_train
    IN  IF n = 0 \/ n_train = 0 \/ n_test = 0
        THEN [raised |-> "ValueError", test |-> <<>>, train |-> <<>>]
        ELSE [raised |-> "",
              test |-> SubSeq(Permutation42[n], 1, n_test),
              train |-> SubSeq(Permutation42[n], n_test + 1, n)]

\* train_test_split(X, y, test_size=0.2, random_state=42) on n rows: the
\* row numbers held out and the row numbers trained on.  n_test is
\* ceil(0.2 * n) and n_train the rest; an empty training set raises.
train_test_split(n) ==
    LET n_test == (n * TestSizePct + 99) \div 100
        n_train == n - n_test
    IN  IF n = 0 \/ n_train = 0
        THEN [raised |-> "ValueError", test |-> <<>>, train |-> <<>>]
        ELSE [raised |-> "",
              test |-> SubSeq(Permutation42[n], 1, n_test),
              train |-> SubSeq(Permutation42[n], n_test + 1, n)]

\* Lines 103-117 of train_model: the exception raised ("" for none) and
\* whether model_report.txt was written.
\*   astype(int) raises on a missing or text Closed cell;
\*   LogisticRegression.fit raises on a text feature and on a training
\*   label with fewer than two classes.
FitAndReport(df) ==
    LET y == Column(df, "Closed")
        X == Column(df, "Amount")
        split == train_test_split(Len(df.rows))
    IN  IF \E i \in DOMAIN y : y[i].kind # "num"
        THEN [raised |-> "ValueError", wrote |-> FALSE]
        ELSE IF split.raised # ""
        THEN [raised |-> split.raised, wrote |-> FALSE]
        ELSE IF HasText(X)
        THEN [raised |-> "ValueError", wrote |-> FALSE]
        ELSE IF Cardinality({y[i].v : i \in Range(split.train)}) < 2
        THEN [raised |-> "ValueError", wrote |-> FALSE]
        ELSE [raised |-> "", wrote |-> TRUE]

\* Mutant of train_model: no column check, the column lookup raises.
train_model_NoGuard(df) ==
    IF ~HasColumn(df, "Closed") \/ ~HasColumn(df, "Amount")
    THEN [raised |-> "KeyError", wrote |-> FALSE]
    ELSE FitAndReport(df)

\* train_model(df, reports_dir): skips when a column is missing.
train_model(df) ==
    IF ~HasColumn(df, "Closed") \/ ~HasColumn(df, "Amount")
    THEN [raised |-> "", wrote |-> FALSE]
    ELSE FitAndReport(df)

(***************************************************************************)
(* Workbooks a run can meet.  A workbook file holds a workbook id; the id  *)
(* past the last workbook is a file that is not a readable workbook.       *)
(***************************************************************************)
Sheet(name, df) == [name |-> name, df |-> df]

WbGood ==
    << Sheet(NPipeline,
             Table(<<"SalesRep", "Amount", "Stage", "Closed">>,
                   << <<Txt(1), Num(100), Txt(11), Num(1)>>,
                      <<Txt(2), Num(200), Txt(11), Num(0)>>,
                      <<Txt(1), Num(300), Txt(12), Num(0)>>,
                      <<Txt(3), NaN, Txt(12), Num(1)>> >>)),
       Sheet(NSalesTeam,
             Table(<<"SalesRep", "Team">>,
                   << <<Txt(1), Txt(21)>>, <<Txt(2), Txt(22)>> >>)) >>

WbSingleSheet ==
    << Sheet(NSheet1,
             Table(<<"Amount", "Stage">>,
                   << <<Num(100), Txt(11)>>, <<Num(250), Txt(12)>> >>)) >>

WbTextAmount ==
    << Sheet(NDEALS,
             Table(<<"SalesRep", "Amount", "Closed">>,
                   << <<Txt(1), Txt(31), Num(1)>>,
                      <<Txt(2), Num(50), Num(0)>> >>)),
       Sheet(NData,
             Table(<<"SalesRep", "Team">>, << <<Txt(1), Txt(21)>> >>)) >>

WbDuplicateReps ==
    << Sheet(NData,
             Table(<<"SalesRep", "Amount", "Closed">>,
                   << <<Txt(1), Num(100), Num(1)>>,
                      <<Txt(2), Num(200), Num(0)>>,
                      <<Txt(1), Num(300), Num(1)>>,
                      <<Txt(3), Num(400), Num(1)>> >>)),
       Sheet(NTeamPipeline,
             Table(<<"SalesRep", "Team">>,
                   << <<Txt(1), Txt(21)>>, <<Txt(1), Txt(22)>>,
                      <<Txt(2), Txt(21)>> >>)) >>

WbNoAmount ==
    << Sheet(NOpportunities,
             Table(<<"Stage", "Closed">>,
                   << <<Txt(11), Num(1)>>, <<Txt(12), NaN>>,
                      <<Txt(11), Num(0)>> >>)),
       Sheet(NSalesTeam, Table(<<"Team">>, << <<Txt(21)>> >>)) >>

WbOneClassInTraining ==
    << Sheet(NIdeal,
             Table(<<"SalesRep", "Amount", "Closed">>,
                   << <<Txt(1), Num(100), Num(1)>>,
                      <<Txt(2), Num(200), Num(0)>>,
                      <<Txt(1), Num(300), Num(1)>>,
                      <<Txt(3), Num(400), Num(1)>> >>)),
       Sheet(NData, Table(<<"Team">>, << <<Txt(21)>> >>)) >>

Workbooks == <<WbGood, WbSingleSheet, WbTextAmount, WbDuplicateReps,
               WbNoAmount, WbOneClassInTraining>>

Unreadable == Len(Workbooks) + 1

SheetNamesOf(book) == [i \in DOMAIN book |-> book[i].name]

\* pd.read_excel(xls, sheet_name=name): the sheet of that name.
SheetNamed(book, name) ==
    book[CHOOSE i \in DOMAIN book : book[i].name = name].df

(***************************************************************************)
(* The run: main() and the __main__ guard of Updated.pipeline.py.          *)
(***************************************************************************)
OutFiles == {"CRM_Sales_Dashboard_Merged_Enhanced.csv", "summary_report.txt",
             "revenue_by_stage.png", "top_sales_reps.png",
             "model_report.txt"}

\* Mutant of resolve_sheets: the overrides count only when both are given.
resolve_sheets_AllOrNothing(args_deals, args_teams, sheet_names) ==
    IF ~Truthy(args_deals) \/ ~Truthy(args_teams)
    THEN detect_sheet_names(sheet_names)
    ELSE [deals |-> args_deals.val, teams |-> args_teams.val]

\* Lines 148-152: the overrides, and detection for what is not overridden.
resolve_sheets(args_deals, args_teams, sheet_names) ==
    IF ~Truthy(args_deals) \/ ~Truthy(args_teams)
    THEN LET auto == detect_sheet_names(sheet_names)
         IN  [deals |-> Or(args_deals, auto.deals),
              teams |-> Or(args_teams, auto.teams)]
    ELSE [deals |-> args_deals.val, teams |-> args_teams.val]

Raise(e) == /\ exc' = e
            /\ pc' = "raised"

Step(stage, next) == /\ trace' = Append(trace, stage)
                     /\ exc' = ""
                     /\ pc' = next

\* parser.parse_args(): argparse ends the process itself (SystemExit) on a
\* command line it rejects (exit code 2) and after --help (exit code 0).
ParseArgs ==
    /\ pc = "start"
    /\ \/ /\ argv.cli = "ok"
          /\ pc' = "setup"
          /\ UNCHANGED <<exitCode, stderr>>
       \/ /\ argv.cli = "bad"
          /\ pc' = "exited"
          /\ exitCode' = 2
          /\ stderr' = stderr \o <<"usage: ...", "error: unrecognized arguments">>
       \/ /\ argv.cli = "help"
          /\ pc' = "exited"
          /\ exitCode' = 0
          /\ UNCHANGED stderr
    /\ trace' = Append(trace, "parse")
    /\ UNCHANGED <<argv, fs, dirs, out, xls, deals_sheet, teams_sheet,
                   deals_df, teams_df, merged, summary, report, exc,
                   lastCall>>

\* Lines 129-135: the processed and reports directories.
MakeDirs ==
    /\ pc = "setup"
    /\ dirs' = Mkdir(Mkdir(dirs, ProcessedDir), ReportsDir)
    /\ Step("setup", "acquire")
    /\ UNCHANGED <<argv, fs, out, xls, deals_sheet, teams_sheet, deals_df,
                   teams_df, merged, summary, report, exitCode, stderr,
                   lastCall>>

\* Lines 138-142.
Acquire ==
    /\ pc = "acquire"
    /\ LET src_excel == IF argv.excel.given /\ argv.excel.val # ""
                        THEN argv.excel.val ELSE Join(RawDir, CanonicalName)
           r == ensure_excel_available(fs, dirs, src_excel, RawDir,
                                       CanonicalName)
       IN  /\ fs' = r.fs
           /\ dirs' = r.dirs
           /\ lastCall' = [src |-> src_excel, destExisted |-> fs[Dest] # 0,
                           srcExisted |-> fs[src_excel] # 0,
                           copied |-> r.copied, srcRead |-> r.srcRead,
                           result |-> r.result]
           /\ trace' = Append(trace, "acquire")
           /\ IF r.raised # "" THEN Raise(r.raised)
              ELSE exc' = "" /\ pc' = "open"
    /\ UNCHANGED <<argv, out, xls, deals_sheet, teams_sheet, deals_df,
                   teams_df, merged, summary, report, exitCode, stderr>>

\* Line 145: pd.ExcelFile(excel_path).
OpenWorkbook ==
    /\ pc = "open"
    /\ trace' = Append(trace, "open")
    /\ IF fs[Dest] = Unreadable
       THEN Raise("BadZipFile") /\ UNCHANGED xls
       ELSE xls' = Workbooks[fs[Dest]] /\ exc' = "" /\ pc' = "resolve"
    /\ UNCHANGED <<argv, fs, dirs, out, deals_sheet, teams_sheet, deals_df,
                   teams_df, merged, summary, report, exitCode, stderr,
                   lastCall>>

\* Lines 148-152.
ResolveSheets ==
    /\ pc = "resolve"
    /\ LET r == resolve_sheets(argv.deals, argv.teams, SheetNamesOf(xls))
       IN  /\ deals_sheet' = Some(r.deals)
           /\ teams_sheet' = Some(r.teams)
    /\ Step("resolve", "load_deals")
    /\ UNCHANGED <<argv, fs, dirs, out, xls, deals_df, teams_df, merged,
                   summary, report, exitCode, stderr, lastCall>>

\* Line 155: a sheet name the workbook does not hold raises ValueError.
LoadDeals ==
    /\ pc = "load_deals"
    /\ trace' = Append(trace, "load_deals")
    /\ IF deals_sheet.val \in Range(SheetNamesOf(xls))
       THEN /\ deals_df' = SheetNamed(xls, deals_sheet.val)
            /\ exc' = "" /\ pc' = "load_teams"
       ELSE Raise("ValueError") /\ UNCHANGED deals_df
    /\ UNCHANGED <<argv, fs, dirs, out, xls, deals_sheet, teams_sheet,
                   teams_df, merged, summary, report, exitCode, stderr,
                   lastCall>>

\* Line 156.
LoadTeams ==
    /\ pc = "load_teams"
    /\ trace' = Append(trace, "load_teams")
    /\ IF teams_sheet.val \in Range(SheetNamesOf(xls))
       THEN /\ teams_df' = SheetNamed(xls, teams_sheet.val)
            /\ exc' = "" /\ pc' = "merge"
       ELSE Raise("ValueError") /\ UNCHANGED teams_df
    /\ UNCHANGED <<argv, fs, dirs, out, xls, deals_sheet, teams_sheet,
                   deals_df, merged, summary, report, exitCode, stderr,
                   lastCall>>

\* Line 162.
ProcessAndMerge ==
    /\ pc = "merge"
    /\ merged' = process_and_merge(deals_df, teams_df)
    /\ Step("merge", "write_csv")
    /\ UNCHANGED <<argv, fs, dirs, out, xls, deals_sheet, teams_sheet,
                   deals_df, teams_df, summary, report, exitCode, stderr,
                   lastCall>>

\* Lines 163-165: merged.to_csv(out_csv, index=False).
WriteCsv ==
    /\ pc = "write_csv"
    /\ out' = [out EXCEPT !["CRM_Sales_Dashboard_Merged_Enhanced.csv"] =
                              "written"]
    /\ Step("write_csv", "summary")
    /\ UNCHANGED <<argv, fs, dirs, xls, deals_sheet, teams_sheet, deals_df,
                   teams_df, merged, summary, report, exitCode, stderr,
                   lastCall>>

\* Line 168.
GenerateSummary ==
    /\ pc = "summary"
    /\ trace' = Append(trace, "summary")
    /\ LET r == generate_summary(merged)
       IN  IF r.raised # ""
           THEN Raise(r.raised) /\ UNCHANGED summary
           ELSE summary' = r.summary /\ exc' = "" /\ pc' = "save_summary"
    /\ UNCHANGED <<argv, fs, dirs, out, xls, deals_sheet, teams_sheet,
                   deals_df, teams_df, merged, report, exitCode, stderr,
                   lastCall>>

\* Line 169: save_summary_report(summary, reports_dir), lines 69-75.
SaveSummaryReport ==
    /\ pc = "save_summary"
    /\ dirs' = Mkdir(dirs, ReportsDir)
    /\ report' = SummaryLines(summary)
    /\ out' = [out EXCEPT !["summary_report.txt"] = "written"]
    /\ Step("save_summary", "charts")
    /\ UNCHANGED <<argv, fs, xls, deals_sheet, teams_sheet, deals_df,
                   teams_df, merged, summary, exitCode, stderr, lastCall>>

\* Line 170.
GenerateCharts ==
    /\ pc = "charts"
    /\ dirs' = Mkdir(dirs, ReportsDir)
    /\ out' = [f \in OutFiles |->
                 IF f \in generate_charts(merged) THEN "written" ELSE out[f]]
    /\ Step("charts", "train")
    /\ UNCHANGED <<argv, fs, xls, deals_sheet, teams_sheet, deals_df,
                   teams_df, merged, summary, report, exitCode, stderr,
                   lastCall>>

\* Line 171.
TrainModel ==
    /\ pc = "train"
    /\ trace' = Append(trace, "train")
    /\ LET r == train_model(merged)
       IN  /\ IF r.raised # "" THEN Raise(r.raised)
              ELSE exc' = "" /\ pc' = "finish"
           /\ IF r.wrote
              THEN /\ out' = [out EXCEPT !["model_report.txt"] = "written"]
                   /\ dirs' = Mkdir(dirs, ReportsDir)
              ELSE UNCHANGED <<out, dirs>>
    /\ UNCHANGED <<argv, fs, xls, deals_sheet, teams_sheet, deals_df,
                   teams_df, merged, summary, report, exitCode, stderr,
                   lastCall>>

\* main() returns: the interpreter exits with code 0.
Finish ==
    /\ pc = "finish"
    /\ pc' = "exited"
    /\ exitCode' = 0
    /\ UNCHANGED <<argv, fs, dirs, out, xls, deals_sheet, teams_sheet,
                   deals_df, teams_df, merged, summary, report, stderr, exc,
                   trace, lastCall>>

\* Mutant of Except: the handler removes what the run wrote before it exits.
Except_RollsBack ==
    /\ pc = "raised"
    /\ pc' = "exited"
    /\ stderr' = Append(stderr, "[ERROR] " \o exc)
    /\ exitCode' = 1
    /\ out' = [f \in OutFiles |-> IF out[f] = "written" THEN "absent"
                                   ELSE out[f]]
    /\ UNCHANGED <<argv, fs, dirs, xls, deals_sheet, teams_sheet, deals_df,
                   teams_df, merged, summary, report, exc, trace, lastCall>>

\* Mutant of Except: the handler prints the error and forgets sys.exit(1).
Except_NoExit ==
    /\ pc = "raised"
    /\ pc' = "exited"
    /\ stderr' = Append(stderr, "[ERROR] " \o exc)
    /\ exitCode' = 0
    /\ UNCHANGED <<argv, fs, dirs, out, xls, deals_sheet, teams_sheet,
                   deals_df, teams_df, merged, summary, report, exc, trace,
                   lastCall>>

\* Lines 176-178: except Exception prints one line and exits with code 1.
Except ==
    /\ pc = "raised"
    /\ pc' = "exited"
    /\ stderr' = Append(stderr, "[ERROR] " \o exc)
    /\ exitCode' = 1
    /\ UNCHANGED <<argv, fs, dirs, out, xls, deals_sheet, teams_sheet,
                   deals_df, teams_df, merged, summary, report, exc, trace,
                   lastCall>>

(***************************************************************************)
(* Initial states.                                                         *)
(***************************************************************************)
NoCall == [src |-> "", destExisted |-> FALSE, srcExisted |-> FALSE,
           copied |-> FALSE, srcRead |-> FALSE, result |-> ""]

NoExcel == [given |-> FALSE, val |-> ""]

NoArgs == [cli |-> "ok", excel |-> NoExcel, deals |-> None, teams |-> None]

NoFiles == [p \in WorkbookPaths |-> 0]

NoOutputs == [f \in OutFiles |-> "absent"]

\* What an earlier run left in reports/summary_report.txt.
StaleReport == << <<"Total Revenue", ": ", [total |-> 1], "\n">> >>

\* Output files left by an earlier run: none, all, or the model report.
EarlierOutputs ==
    {NoOutputs, [f \in OutFiles |-> "stale"],
     [f \in OutFiles |-> IF f = "model_report.txt" THEN "stale"
                          ELSE "absent"]}

\* The directories the files that exist lie in.
DirsOf(files, outputs) ==
    (IF files[Dest] # 0 THEN {"data", RawDir} ELSE {})
    \cup (IF \E f \in OutFiles \ {"CRM_Sales_Dashboard_Merged_Enhanced.csv"} :
                outputs[f] # "absent"
          THEN {ReportsDir} ELSE {})
    \cup (IF outputs["CRM_Sales_Dashboard_Merged_Enhanced.csv"] # "absent"
          THEN {"data", ProcessedDir} ELSE {})

\* The variables a part of the program does not use, at rest.
Idle(used) ==
    /\ "argv" \in used \/ argv = NoArgs
    /\ "fs" \in used \/ (fs = NoFiles /\ dirs = {})
    /\ "out" \in used \/ (out = NoOutputs /\ report = <<>>)
    /\ "xls" \in used \/ xls = <<>>
    /\ "frames" \in used \/ (deals_df = EmptyDF /\ teams_df = EmptyDF)
    /\ "merged" \in used \/ merged = EmptyDF
    /\ deals_sheet = None /\ teams_sheet = None
    /\ summary = <<>>
    /\ exitCode = -1 /\ stderr = <<>> /\ exc = "" /\ trace = <<>>
    /\ lastCall = NoCall

\* --excel: absent, empty, a path that may exist, a path that does not.
ExcelOptions == {NoExcel, [given |-> TRUE, val |-> ""],
                 [given |-> TRUE, val |-> SrcA],
                 [given |-> TRUE, val |-> SrcB]}

\* --deals-sheet / --teams-sheet: absent, empty, a name some workbooks
\* hold, a name no workbook holds.
DealsOptions == {None, Some(<<>>), Some(NData), Some(NMissing)}
TeamsOptions == {None, Some(<<>>), Some(NSalesTeam), Some(NMissing)}

MainArgs ==
    {[cli |-> c, excel |-> NoExcel, deals |-> None, teams |-> None] :
        c \in {"bad", "help"}}
    \cup {[cli |-> "ok", excel |-> e, deals |-> d, teams |-> t] :
             e \in ExcelOptions, d \in DealsOptions, t \in TeamsOptions}

Init ==
    /\ pc = "start"
    /\ argv \in MainArgs
    /\ fs \in {f \in [WorkbookPaths -> 0..Unreadable] : f[SrcB] = 0}
    /\ out \in EarlierOutputs
    /\ dirs = DirsOf(fs, out)
    /\ report = IF out["summary_report.txt"] = "stale" THEN StaleReport
                ELSE <<>>
    /\ Idle({"argv", "fs", "out"})

Next ==
    \/ ParseArgs
    \/ MakeDirs
    \/ Acquire
    \/ OpenWorkbook
    \/ ResolveSheets
    \/ LoadDeals
    \/ LoadTeams
    \/ ProcessAndMerge
    \/ WriteCsv
    \/ GenerateSummary
    \/ SaveSummaryReport
    \/ GenerateCharts
    \/ TrainModel
    \/ Finish
    \/ Except

Spec == Init /\ [][Next]_vars

(***************************************************************************)
(* ensure_excel_available on its own: any file system, any candidate       *)
(* source, call after call.                                                *)
(***************************************************************************)
InitAcquire ==
    /\ pc = "call"
    /\ fs \in [WorkbookPaths -> 0..2]
    /\ dirs \in {{}, {"data", RawDir}}
    /\ fs[Dest] # 0 => RawDir \in dirs
    /\ Idle({"fs"})

CallEnsure ==
    /\ pc = "call"
    /\ \E src_excel \in WorkbookPaths :
          LET r == ensure_excel_available(fs, dirs, src_excel, RawDir,
                                          CanonicalName)
          IN  /\ fs' = r.fs
              /\ dirs' = r.dirs
              /\ exc' = r.raised
              /\ lastCall' = [src |-> src_excel,
                              destExisted |-> fs[Dest] # 0,
                              srcExisted |-> fs[src_excel] # 0,
                              copied |-> r.copied, srcRead |-> r.srcRead,
                              result |-> r.result]
    /\ UNCHANGED <<pc, argv, out, xls, deals_sheet, teams_sheet, deals_df,
                   teams_df, merged, summary, report, exitCode, stderr,
                   trace>>

NextAcquire == CallEnsure

SpecAcquire == InitAcquire /\ [][NextAcquire]_vars

(***************************************************************************)
(* Sheet resolution and loading on their own: every list of sheet names,   *)
(* every combination of overrides.  Sheet i holds a table that names it.   *)
(***************************************************************************)
TaggedBook(names) ==
    [i \in DOMAIN names |->
        Sheet(names[i], Table(<<"Tag">>, << <<Num(i)>> >>))]

InitResolve ==
    /\ pc = "resolve"
    /\ \E names \in SheetNameLists : xls = TaggedBook(names)
    /\ \E d \in DealsOptions, t \in TeamsOptions :
          argv = [cli |-> "ok", excel |-> NoExcel, deals |-> d, teams |-> t]
    /\ Idle({"argv", "xls"})

NextResolve ==
    \/ ResolveSheets
    \/ LoadDeals
    \/ LoadTeams
    \/ Except

SpecResolve == InitResolve /\ [][NextResolve]_vars

(***************************************************************************)
(* process_and_merge on its own: deals and teams tables with and without   *)
(* the key, with repeated, unmatched and missing keys.                     *)
(***************************************************************************)
\* SalesRep values: two representatives and a missing value.
RepCells == <<Txt(1), Txt(2), NaN>>

KeyedTables(columnChoices, maxRows, base) ==
    UNION {{[columns |-> cols,
             rows |-> [i \in 1..n |->
                         [c \in Range(cols) |->
                            IF c = "SalesRep" THEN RepCells[keys[i]]
                            ELSE Num(base + i)]]] :
               keys \in [1..n -> DOMAIN RepCells]} :
           cols \in columnChoices, n \in 0..maxRows}

DealsTables ==
    KeyedTables({<<"SalesRep", "Amount">>, <<"Amount", "Stage">>,
                 <<"SalesRep", "Amount", "Team">>}, MaxDealRows, 100)

TeamsTables ==
    KeyedTables({<<"SalesRep", "Team">>, <<"Team", "Region">>,
                 <<"SalesRep", "Amount">>}, MaxTeamRows, 200)

InitMerge ==
    /\ pc = "merge"
    /\ deals_df \in DealsTables
    /\ teams_df \in TeamsTables
    /\ Idle({"frames"})

NextMerge == ProcessAndMerge

SpecMerge == InitMerge /\ [][NextMerge]_vars

(***************************************************************************)
(* The summary report on its own: every subset of the columns, with        *)
(* numbers, missing values and text in the rows.                           *)
(***************************************************************************)
SummaryColumns == <<"SalesRep", "Amount", "Stage", "Closed">>

CellOptions(c) ==
    CASE c = "SalesRep" -> {Txt(1)}
      [] c = "Amount" -> {Num(100), NaN, Txt(31)}
      [] c = "Stage" -> {Txt(11), Txt(12)}
      [] c = "Closed" -> {Num(0), Num(1), NaN, Txt(32)}

SummaryTables ==
    UNION {{[columns |-> SelectSeq(SummaryColumns, LAMBDA c : c \in S),
             rows |-> rs] :
               rs \in [1..n -> {r \in [S -> UNION {CellOptions(c) : c \in S}] :
                                   \A c \in S : r[c] \in CellOptions(c)}]} :
           S \in SUBSET Range(SummaryColumns), n \in 0..MaxSummaryRows}

InitSummary ==
    /\ pc = "summary"
    /\ merged \in SummaryTables
    /\ out \in {NoOutputs, [f \in OutFiles |-> "stale"]}
    /\ report = IF out["summary_report.txt"] = "stale" THEN StaleReport
                ELSE <<>>
    /\ Idle({"merged", "out"})

NextSummary ==
    \/ GenerateSummary
    \/ SaveSummaryReport
    \/ Except

SpecSummary == InitSummary /\ [][NextSummary]_vars

(***************************************************************************)
(* train_model on its own: every Closed column of 0s and 1s up to the      *)
(* bound, with and without a missing cell, and tables lacking a column.    *)
(***************************************************************************)
TrainTablesFull ==
    UNION {{[columns |-> <<"Amount", "Closed">>,
             rows |-> [i \in 1..n |->
                         [c \in {"Amount", "Closed"} |->
                            IF c = "Amount"
                            THEN (IF gap = "amount" /\ i = 2 THEN NaN
                                  ELSE Num(100 * i))
                            ELSE (IF gap = "closed" /\ i = 1 THEN NaN
                                  ELSE Num(closed[i]))]]] :
               closed \in [1..n -> {0, 1}],
               gap \in {"none", "amount", "closed"}} :
           n \in 0..MaxTrainRows}

TrainTablesLacking ==
    {[columns |-> cols,
      rows |-> [i \in 1..n |-> [c \in Range(cols) |-> Num(i % 2)]]] :
        cols \in {<<"Amount", "Stage">>, <<"Stage", "Closed">>, <<"Stage">>},
        n \in 0..MaxTrainRows}

InitTrain ==
    /\ pc = "train"
    /\ merged \in TrainTablesFull \cup TrainTablesLacking
    /\ out \in {NoOutputs, [f \in OutFiles |-> "stale"]}
    /\ report = IF out["summary_report.txt"] = "stale" THEN StaleReport
                ELSE <<>>
    /\ Idle({"merged", "out"})

NextTrain ==
    \/ TrainModel
    \/ Finish
    \/ Except

SpecTrain == InitTrain /\ [][NextTrain]_vars

(***************************************************************************)
(* Properties.                                                             *)
(***************************************************************************)

\* C1: a call of ensure_excel_available that starts with the canonical
\* destination in place copies nothing, leaves every file (destination and
\* candidate source) as it was, does not read the source, raises nothing
\* and returns the destination path, whatever the candidate source is
\* (present, absent, or the destination itself) and whatever calls came
\* before.
C1_ExistingDestinationUntouched ==
    [][fs[Dest] # 0 =>
          /\ fs' = fs
          /\ ~lastCall'.copied
          /\ ~lastCall'.srcRead
          /\ exc' = ""
          /\ lastCall'.result = Dest]_vars

\* C1 witness: a call found the destination in place while its candidate
\* source, another path, did not exist, and returned the destination.
C1_Witness ==
    /\ pc = "call"
    /\ lastCall.destExisted
    /\ lastCall.src = SrcB
    /\ ~lastCall.srcExisted
    /\ lastCall.result = Dest
    /\ fs[Dest] # 0

\* Stated without the loop: name n contains one of the keywords, ignoring
\* case.
NameHasKeyword(n, keywords) ==
    \E j \in DOMAIN keywords :
        \E off \in 0..(Len(n) - Len(keywords[j])) :
            \A i \in 1..Len(keywords[j]) :
                LowerChar(n[off + i]) = keywords[j][i]

\* r is the first name of the list with a keyword, or the fallback name
\* when no name has one.
IsFirstMatchOr(names, keywords, fallback, r) ==
    \/ \E i \in DOMAIN names :
          /\ NameHasKeyword(names[i], keywords)
          /\ \A j \in 1..(i - 1) : ~NameHasKeyword(names[j], keywords)
          /\ r = names[i]
    \/ /\ \A i \in DOMAIN names : ~NameHasKeyword(names[i], keywords)
       /\ r = fallback

\* C2: for every sheet-name list with at least one sheet, detection returns
\* as deals the first sheet whose lower-cased name contains "deal",
\* "pipeline" or "opportunit" (else the first sheet), as teams the first
\* sheet whose lower-cased name contains "team" or "sales" (else the last
\* sheet); both are names of the list, and ["Pipeline", "Sales Team"] gives
\* ("Pipeline", "Sales Team").
C2_DetectFirstMatch ==
    (deals_sheet.given /\ ~Truthy(argv.deals) /\ ~Truthy(argv.teams)) =>
        LET names == SheetNamesOf(xls)
        IN  /\ teams_sheet.given
            /\ IsFirstMatchOr(names, DealsKeywords, names[1], deals_sheet.val)
            /\ IsFirstMatchOr(names, TeamsKeywords, names[Len(names)],
                              teams_sheet.val)
            /\ deals_sheet.val \in Range(names)
            /\ teams_sheet.val \in Range(names)
            /\ (names = <<NPipeline, NSalesTeam>> =>
                   /\ deals_sheet.val = NPipeline
                   /\ teams_sheet.val = NSalesTeam)

\* C2 witness: detection ran without overrides on a list where the deals
\* sheet is an upper-case keyword match that is not the first sheet and the
\* teams sheet is the positional fallback.
C2_Witness ==
    /\ deals_sheet.given
    /\ argv.deals = None /\ argv.teams = None
    /\ SheetNamesOf(xls) = <<NSheet1, NDEALS, NData>>
    /\ deals_sheet.val = NDEALS
    /\ teams_sheet.val = NData

\* The table main holds for a role once the role's sheet is loaded.
LoadedIs(df, name) ==
    /\ name \in Range(SheetNamesOf(xls))
    /\ \E i \in DOMAIN xls : xls[i].name = name /\ df = xls[i].df

\* C3 as stated: whenever a name was supplied for a role, that name is the
\* sheet main loads for the role.
C3_AsStated ==
    deals_sheet.given =>
        /\ argv.deals.given => deals_sheet.val = argv.deals.val
        /\ argv.teams.given => teams_sheet.val = argv.teams.val

\* C3 (amended): the sheet main loads for a role is the supplied name when
\* a non-empty name was supplied for that role (whether or not the workbook
\* holds it) and the detected name otherwise, an empty name counting as
\* none; the choice for a role does not depend on the other role's option.
C3_PerRoleOverride ==
    deals_sheet.given =>
        LET names == SheetNamesOf(xls)
        IN  /\ teams_sheet.given
            /\ IF argv.deals.given /\ argv.deals.val # <<>>
               THEN deals_sheet.val = argv.deals.val
               ELSE IsFirstMatchOr(names, DealsKeywords, names[1],
                                   deals_sheet.val)
            /\ IF argv.teams.given /\ argv.teams.val # <<>>
               THEN teams_sheet.val = argv.teams.val
               ELSE IsFirstMatchOr(names, TeamsKeywords, names[Len(names)],
                                   teams_sheet.val)
            /\ pc \in {"load_teams", "merge"} =>
                  LoadedIs(deals_df, deals_sheet.val)
            /\ pc = "merge" => LoadedIs(teams_df, teams_sheet.val)
            /\ (pc = "raised" /\ trace[Len(trace)] = "load_deals") =>
                  deals_sheet.val \notin Range(names)
            /\ (pc = "raised" /\ trace[Len(trace)] = "load_teams") =>
                  teams_sheet.val \notin Range(names)

\* C3 witness: only --deals-sheet was given, naming a sheet detection would
\* not pick; both sheets are loaded, the deals sheet the named one and the
\* teams sheet the detected one.
C3_Witness ==
    /\ pc = "merge"
    /\ argv.deals = Some(NData) /\ argv.teams = None
    /\ SheetNamesOf(xls) = <<NPipeline, NData, NSalesTeam>>
    /\ deals_sheet.val = NData
    /\ teams_sheet.val = NSalesTeam
    /\ deals_df = xls[2].df
    /\ teams_df = xls[3].df

BothHaveSalesRep ==
    HasColumn(deals_df, "SalesRep") /\ HasColumn(teams_df, "SalesRep")

\* Pairs (deal row, teams row) with the same SalesRep, and deal rows with
\* no such teams row.
MatchedPairs ==
    {p \in (DOMAIN deals_df.rows) \X (DOMAIN teams_df.rows) :
        deals_df.rows[p[1]]["SalesRep"] = teams_df.rows[p[2]]["SalesRep"]}

UnmatchedDeals ==
    {i \in DOMAIN deals_df.rows :
        \A j \in DOMAIN teams_df.rows :
            deals_df.rows[i]["SalesRep"] # teams_df.rows[j]["SalesRep"]}

TeamsKeysDistinct ==
    \A i, j \in DOMAIN teams_df.rows :
        i # j => teams_df.rows[i]["SalesRep"] # teams_df.rows[j]["SalesRep"]

\* C4 as stated: when both tables have the SalesRep column the merged table
\* has exactly as many rows as the deals table.
C4_AsStated ==
    (pc = "write_csv" /\ BothHaveSalesRep) =>
        Len(merged.rows) = Len(deals_df.rows)

\* C4 (amended): when both tables have the SalesRep column the merged table
\* has one row per deal row and matching teams row, plus one per deal row
\* without a match: never fewer rows than the deals table, and exactly as
\* many when no SalesRep value (a missing one included) occurs in more than
\* one teams row.
C4_LeftJoinRowCount ==
    (pc = "write_csv" /\ BothHaveSalesRep) =>
        /\ Len(merged.rows) =
              Cardinality(MatchedPairs) + Cardinality(UnmatchedDeals)
        /\ Len(merged.rows) >= Len(deals_df.rows)
        /\ TeamsKeysDistinct => Len(merged.rows) = Len(deals_df.rows)

\* C4 witness: a left join over distinct teams keys with one matched and
\* one unmatched deal row kept both rows.
C4_Witness ==
    /\ pc = "write_csv"
    /\ BothHaveSalesRep
    /\ TeamsKeysDistinct
    /\ Len(teams_df.rows) = 2
    /\ Cardinality(MatchedPairs) = 1
    /\ Cardinality(UnmatchedDeals) = 1
    /\ Len(merged.rows) = 2

\* C5: when SalesRep is missing from the deals table, the teams table or
\* both, process_and_merge raises nothing and returns the deals table as it
\* is: same columns, same rows, same values, nothing from the teams table.
C5_FallbackReturnsDeals ==
    (pc = "write_csv" /\ ~BothHaveSalesRep) =>
        /\ merged = deals_df
        /\ merged.columns = deals_df.columns
        /\ Len(merged.rows) = Len(deals_df.rows)
        /\ exc = ""

\* C5 witness: the deals table has SalesRep, the teams table does not, both
\* have rows, and the merge handed back the deals table.
C5_Witness ==
    /\ pc = "write_csv"
    /\ HasColumn(deals_df, "SalesRep")
    /\ ~HasColumn(teams_df, "SalesRep")
    /\ Len(deals_df.rows) = 2
    /\ Len(teams_df.rows) = 2
    /\ merged = deals_df

\* The keys the summary is to hold for a table, in report order.
ExpectedKeys(df) ==
    (IF "Amount" \in Range(df.columns)
     THEN <<"Total Revenue", "Average Deal Size">> ELSE <<>>)
    \o (IF "Stage" \in Range(df.columns) THEN <<"Deals by Stage">> ELSE <<>>)
    \o (IF "Closed" \in Range(df.columns) THEN <<"Win Rate (%)">> ELSE <<>>)

\* C6: for every subset of the columns Amount, Stage and Closed in the
\* merged table, the summary holds "Total Revenue" and "Average Deal Size"
\* exactly when Amount is present, "Deals by Stage" exactly when Stage is,
\* "Win Rate (%)" exactly when Closed is, and summary_report.txt holds one
\* "<key>: <value>" line per key in that order (no line when none of the
\* columns is present).  The summary is produced unless a text cell in
\* Amount or Closed makes the arithmetic raise.
C6_SummaryKeysAndLines ==
    /\ pc \in {"save_summary", "charts"} =>
          /\ Len(summary) = Len(ExpectedKeys(merged))
          /\ \A i \in DOMAIN summary : summary[i].key = ExpectedKeys(merged)[i]
    /\ pc = "charts" =>
          /\ out["summary_report.txt"] = "written"
          /\ Len(report) = Len(ExpectedKeys(merged))
          /\ \A i \in DOMAIN report :
                /\ report[i][1] = ExpectedKeys(merged)[i]
                /\ report[i][2] = ": "
                /\ report[i][3] = summary[i].value
                /\ report[i][4] = "\n"
    /\ (pc = "raised" /\ trace[Len(trace)] = "summary") =>
          \E c \in {"Amount", "Closed"} :
              c \in Range(merged.columns) /\ HasText(Column(merged, c))

\* C6 witness: a table with Amount and Closed but no Stage gave a report of
\* three lines that replaced the one an earlier run had left.
C6_Witness ==
    /\ pc = "charts"
    /\ Range(merged.columns) = {"SalesRep", "Amount", "Closed"}
    /\ Len(merged.rows) = 2
    /\ Len(report) = 3
    /\ report[3][1] = "Win Rate (%)"
    /\ out["model_report.txt"] = "stale"
    /\ report # StaleReport

LacksTrainingColumn(df) ==
    "Closed" \notin Range(df.columns) \/ "Amount" \notin Range(df.columns)

\* C7: when the merged table lacks Closed or lacks Amount, train_model
\* returns without raising and neither creates nor modifies
\* reports/model_report.txt, and the run goes on to exit code 0.
C7_SkipWithoutColumns ==
    (pc \in {"finish", "raised", "exited"}
        /\ trace # <<>> /\ trace[Len(trace)] = "train"
        /\ LacksTrainingColumn(merged)) =>
            /\ exc = ""
            /\ pc \in {"finish", "exited"}
            /\ out["model_report.txt"] # "written"
            /\ pc = "exited" => (exitCode = 0 /\ stderr = <<>>)

\* C7 witness: a run whose merged table has Amount but no Closed reached
\* exit code 0 with the model report of an earlier run still in place.
C7_Witness ==
    /\ pc = "exited"
    /\ exitCode = 0
    /\ trace[Len(trace)] = "train"
    /\ HasColumn(merged, "Amount")
    /\ ~HasColumn(merged, "Closed")
    /\ out["model_report.txt"] = "stale"

\* Both columns are there and hold a number in every row.
Populated(df) ==
    /\ "Amount" \in Range(df.columns)
    /\ "Closed" \in Range(df.columns)
    /\ \A i \in DOMAIN df.rows :
          df.rows[i]["Amount"].kind = "num" /\ df.rows[i]["Closed"].kind = "num"

\* The Closed values among the rows the seeded 80/20 split trains on: the
\* rows after the first ceil(n / 5) of the seed-42 shuffle.
TrainingClasses(df) ==
    LET n == Len(df.rows)
        held == (n + 4) \div 5
    IN  {df.rows[Permutation42[n][k]]["Closed"].v : k \in (held + 1)..n}

\* C8 as stated: with at least 10 rows and both columns populated,
\* train_model completes and model_report.txt is written, whatever the
\* Closed values are.
C8_AsStated ==
    (pc \in {"finish", "raised", "exited"}
        /\ Len(merged.rows) >= 10 /\ Populated(merged)) =>
            /\ exc = ""
            /\ out["model_report.txt"] = "written"

\* C8 (amended): with at least 10 rows and both columns populated,
\* train_model completes and writes model_report.txt exactly when the rows
\* the seeded split trains on hold both Closed values; when they hold only
\* one, fitting raises ValueError and no report is written.
C8_ReportWhenTrainingHasBothClasses ==
    (pc \in {"finish", "raised", "exited"}
        /\ Len(merged.rows) >= 10 /\ Populated(merged)) =>
            IF Cardinality(TrainingClasses(merged)) >= 2
            THEN /\ exc = ""
                 /\ out["model_report.txt"] = "written"
                 /\ pc \in {"finish", "exited"}
            ELSE /\ exc = "ValueError"
                 /\ out["model_report.txt"] # "written"
                 /\ pc \in {"raised", "exited"}

\* C8 witness: ten populated rows whose training rows hold both classes
\* gave a model report.
C8_Witness ==
    /\ pc = "finish"
    /\ Len(merged.rows) = 10
    /\ Populated(merged)
    /\ Cardinality(TrainingClasses(merged)) = 2
    /\ out["model_report.txt"] = "written"

\* Every stage of main, in the order of the code.
StageOrder == <<"parse", "setup", "acquire", "open", "resolve", "load_deals",
                "load_teams", "merge", "write_csv", "summary",
                "save_summary", "charts", "train">>

\* C9 as stated: every invocation ends with exit code 0 or 1, 0 exactly
\* when all stages completed.
C9_AsStated ==
    pc = "exited" =>
        /\ exitCode \in {0, 1}
        /\ exitCode = 0 <=> (trace = StageOrder /\ exc = "")

\* C9 (amended): every invocation whose command line argparse accepts ends
\* with exit code 0 or 1: 0 exactly when all stages completed, 1 together
\* with one "[ERROR] ..." line on standard error for any failure, among
\* them a workbook missing at both places, an unreadable workbook and a
\* sheet name the workbook does not hold.  A command line argparse rejects
\* ends with exit code 2 and --help with exit code 0, before any stage.
C9_ExitCodes ==
    /\ pc # "exited" => exitCode = -1
    /\ pc = "exited" =>
          CASE argv.cli = "ok" ->
                  /\ exitCode \in {0, 1}
                  /\ exitCode = 0 <=> (trace = StageOrder /\ exc = "")
                  /\ exitCode = 0 => stderr = <<>>
                  /\ exitCode = 1 =>
                        /\ exc # ""
                        /\ stderr = <<"[ERROR] " \o exc>>
                  /\ fs[Dest] \in {0, Unreadable} => exitCode = 1
                  /\ (deals_sheet.given
                        /\ \/ deals_sheet.val \notin Range(SheetNamesOf(xls))
                           \/ teams_sheet.val \notin Range(SheetNamesOf(xls)))
                     => exitCode = 1
            [] argv.cli = "bad" -> exitCode = 2 /\ trace = <<"parse">>
            [] argv.cli = "help" -> exitCode = 0 /\ trace = <<"parse">>

\* C9 witness: a run given a teams sheet name the workbook does not hold
\* ended with exit code 1 and one error line.
C9_Witness ==
    /\ pc = "exited"
    /\ argv.cli = "ok"
    /\ exitCode = 1
    /\ trace[Len(trace)] = "load_teams"
    /\ teams_sheet.val = NMissing
    /\ stderr = <<"[ERROR] ValueError">>

\* The stage that writes an output file.
StageOf(f) ==
    CASE f = "CRM_Sales_Dashboard_Merged_Enhanced.csv" -> "write_csv"
      [] f = "summary_report.txt" -> "save_summary"
      [] f \in {"revenue_by_stage.png", "top_sales_reps.png"} -> "charts"
      [] f = "model_report.txt" -> "train"

\* C10, in every state: the stages run are an initial part of the fixed
\* order, each once; the merged CSV is written only after both sheets
\* loaded; a file is written only by a stage that ran; a failure stops the
\* run at the failing stage with exit code 1.
C10_StageOrderInv ==
    /\ Len(trace) <= Len(StageOrder)
    /\ \A i \in DOMAIN trace : trace[i] = StageOrder[i]
    /\ out["CRM_Sales_Dashboard_Merged_Enhanced.csv"] = "written" =>
          /\ {"load_deals", "load_teams"} \subseteq Range(trace)
          /\ LoadedIs(deals_df, deals_sheet.val)
          /\ LoadedIs(teams_df, teams_sheet.val)
    /\ \A f \in OutFiles : out[f] = "written" => StageOf(f) \in Range(trace)
    /\ exc # "" => pc \in {"raised", "exited"}
    /\ (pc = "exited" /\ exc # "") => exitCode = 1
    /\ (pc = "exited" /\ argv.cli = "ok" /\ exc = "") => trace = StageOrder

\* C10, in every step: a step runs at most the next stage; no file, written
\* or left by an earlier run, and no directory is removed; the canonical
\* workbook, once there, stays as it is; nothing runs after the exit.
C10_StageOrderStep ==
    /\ trace' = trace \/ (\E st \in Range(StageOrder) : trace' = Append(trace, st))
    /\ \A f \in OutFiles :
          /\ out[f] = "written" => out'[f] = "written"
          /\ out[f] = "stale" => out'[f] \in {"stale", "written"}
    /\ dirs \subseteq dirs'
    /\ fs[Dest] # 0 => fs'[Dest] = fs[Dest]
    /\ pc = "exited" => UNCHANGED vars

\* C10: in every run the stages execute once each in the fixed order
\* acquisition, sheet resolution, load of both sheets, merge, CSV write,
\* summary report write, chart rendering, model training; the CSV is
\* written only after both sheets loaded; a failing stage stops the run
\* with exit code 1, no later stage writes a file, and the files and
\* directories of the earlier stages stay in place (no retry, no rollback).
C10_StagesInOrderNoRollback ==
    []C10_StageOrderInv /\ [][C10_StageOrderStep]_vars

\* C10 witness: a run failed in the summary stage after writing the merged
\* CSV: exit code 1, the CSV in place, no report, chart or model file
\* written.
C10_Witness ==
    /\ pc = "exited"
    /\ exitCode = 1
    /\ trace[Len(trace)] = "summary"
    /\ out["CRM_Sales_Dashboard_Merged_Enhanced.csv"] = "written"
    /\ \A f \in OutFiles \ {"CRM_Sales_Dashboard_Merged_Enhanced.csv"} :
          out[f] = "absent"
    /\ {"data", ProcessedDir, ReportsDir} \subseteq dirs

=============================================================================
